---- MODULE Spec2Model ----
(***************************************************************************)
(* The resumable streaming backfill of                                     *)
(* scripts/clickhouse-backfill/backfill_events.py: the cursor store, the   *)
(* side-table loader, the keyset-paginated reader, the record transformer, *)
(* the retried batch writer and the orchestrator with its interrupt and    *)
(* fatal-error handlers.                                                   *)
(*                                                                         *)
(* Strings are TLA+ strings; their byte order is given by StrOrder.  A     *)
(* date is the number of days since 1970-01-01, a start_time the number of *)
(* hours since 1970-01-01T00:00.  Python's None (SQL NULL) for a nullable  *)
(* string is Null; None for the interrupt cursor is the empty tuple.       *)
(***************************************************************************)
EXTENDS Integers, Sequences, FiniteSets, Bags, TLC

VARIABLES
    batch_size,           \* Config.batch_size
    max_retries,          \* Config.max_retries
    dry_run,              \* Config.dry_run
    observations,         \* the observations table (all partitions, deleted rows included)
    traces,               \* the traces table
    events,               \* the events table: a bag of inserted events
    cursor_file,          \* the cursor file on disk
    pc,                   \* position of the process in run()
    run,                  \* number of the current process run on this cursor file
    trace_attrs,          \* self.trace_attrs
    self_current_cursor,  \* self.current_cursor (<<>> is None)
    stats,                \* self.stats
    current_cursor,       \* local current_cursor of stream_observations
    rows,                 \* result.result_rows of the current page
    row_idx,              \* position of the for loop in rows
    batch,                \* batch of the current page
    attempt,              \* attempt of insert_events_batch
    exit_status,          \* process exit status (-1 while running)
    pages,                \* number of page queries issued by this run
    start_cursor,         \* history: the cursor load_cursor returned in this run
    entry_at_start,       \* history: the cursor file when this run started
    save_log,             \* history: the save_cursor calls of this run
    last_confirmed,       \* history: cursor of the last batch an insert call accepted in this run
    write_failures,       \* history: cursor file writes that failed in this run
    exit_path,            \* history: how this run left run(): "done", "interrupt" or "fatal"
    prev_exit_path,       \* history: how the previous run left run() ("" if there was none)
    raised_at,            \* history: the step of this run that raised an Exception ("" if none)
    iter,                 \* history: insert attempts and saves of the current loop iteration
    total_count,          \* local total_count of stream_observations (-1 before it is set)
    summaries             \* history: calls of print_summary in this run

cfg_vars  == <<batch_size, max_retries, dry_run>>
db_vars   == <<observations, traces>>
page_vars == <<rows, row_idx, batch, attempt>>
hist_vars == <<start_cursor, entry_at_start, save_log, last_confirmed, write_failures,
               exit_path, prev_exit_path, raised_at, iter>>
report_vars == <<total_count, summaries>>
vars == <<batch_size, max_retries, dry_run, observations, traces, events,
          cursor_file, pc, run, trace_attrs, self_current_cursor, stats,
          current_cursor, rows, row_idx, batch, attempt, exit_status, pages,
          start_cursor, entry_at_start, save_log, last_confirmed,
          write_failures, exit_path, prev_exit_path, raised_at, iter,
          total_count, summaries>>

---------------------------------------------------------------------------
(* Bounds of the model *)

\* largest number of live rows of the partition
MaxRows == 3
\* largest configured batch size (the page limit)
MaxBatchSize == 2
\* largest configured max_retries
MaxRetries == 2
\* page queries one run may issue before the model stops following it
MaxPages == 3
\* process runs that share the cursor file
MaxRuns == 2
\* cursor file writes that may fail in one run
MaxWriteFailures == 1
\* largest retry budget of a call of insert_events_batch taken alone
MaxInsertRetries == 4

---------------------------------------------------------------------------
(* Values *)

Null == "<None>"

\* config.partition and another partition that shares the cursor file
Partition == "197001"
OtherPartition == "197002"

\* every string that is compared by order, in ascending byte order
StrOrder == <<"", "GENERATION", "SPAN", "obs1", "project1", "project2", "t-trace1">>

StrRank(s) == CHOOSE i \in 1..Len(StrOrder) : StrOrder[i] = s

StrLess(a, b) == StrRank(a) < StrRank(b)

\* a Python value that may be a dict, a non-empty str or None; the items of
\* a dict are its <<key, value>> pairs in insertion order, keys distinct
DictValue(f) == [tag |-> "dict", items |-> f]
StrValue == [tag |-> "str", items |-> <<>>]
NoneValue == [tag |-> "none", items |-> <<>>]

\* dict.keys() as a set, d[k], and d[k] = v (a new key goes last)
Keys(d) == {d[i][1] : i \in DOMAIN d}

Lookup(d, k) == d[CHOOSE i \in DOMAIN d : d[i][1] = k][2]

\* an assignment that keeps the value of a key the dict already has
DictSet_KeepsExisting(d, k, v) ==
    IF k \in Keys(d) THEN d ELSE Append(d, <<k, v>>)

DictSet(d, k, v) ==
    IF k \in Keys(d)
    THEN [i \in DOMAIN d |-> IF d[i][1] = k THEN <<k, v>> ELSE d[i]]
    ELSE Append(d, <<k, v>>)

\* the merge with the left operand winning on shared keys
RECURSIVE DictMerge_LeftWins(_, _)
DictMerge_LeftWins(a, b) ==
    IF b = <<>> THEN a
    ELSE DictMerge_LeftWins(
            IF b[1][1] \in Keys(a) THEN a ELSE Append(a, b[1]), Tail(b))

\* {**a, **b}: the items of a, then those of b assigned one after the other
RECURSIVE DictMerge(_, _)
DictMerge(a, b) ==
    IF b = <<>> THEN a
    ELSE DictMerge(DictSet(a, b[1][1], b[1][2]), Tail(b))

\* str(v) of a value of a Map(String, String) column, a str: v itself
PyStr(v) == v

Digits == <<"0", "1", "2", "3", "4", "5", "6", "7", "8", "9">>

TwoDigits(n) == Digits[(n \div 10) + 1] \o Digits[(n % 10) + 1]

\* the days of January 1970, which is as far as dates go here
Days == 0..30

\* a date written day first, "%d/%m/%Y"
strftime_DayFirst(d) == TwoDigits(d + 1) \o "/01/1970"

\* cursor_date.strftime("%Y-%m-%d")
strftime(d) == "1970-01-" \o TwoDigits(d + 1)

IsDigit(ch) == \E i \in 1..10 : Digits[i] = ch

DigitValue(ch) == (CHOOSE i \in 1..10 : Digits[i] = ch) - 1

\* the day of the month a "%Y-%m-%d" text of January 1970 names
DayOfMonth(s) == 10 * DigitValue(SubSeq(s, 9, 9)) + DigitValue(SubSeq(s, 10, 10))

\* datetime.strptime(date_str, "%Y-%m-%d").date(), read off the text
strptime(s) == DayOfMonth(s) - 1

\* toDate(start_time) in the query, row[4].date() in the loop
ToDate(start_time) == start_time \div 24

---------------------------------------------------------------------------
(* Cursor Store *)

\* an entry of the cursor file, as save_cursor writes it (updated_at, a
\* wall-clock stamp nothing reads, is left out)
CursorEntry(cursor) ==
    [project_id |-> cursor[1], type |-> cursor[2],
     date |-> strftime(cursor[3]), id |-> cursor[4]]

\* the cursor file: absent; present but open(..., 'r') or json.load raises
\* (unreadable, truncated, not JSON); JSON that is not an object; a JSON
\* object from partition ids to entries
MissingFile == [kind |-> "missing", data |-> <<>>]
CorruptFile == [kind |-> "corrupt", data |-> <<>>]
NotMappingFile == [kind |-> "not_mapping", data |-> <<>>]
JsonFile(data) == [kind |-> "ok", data |-> data]

\* strptime raises ValueError: the string is not a "%Y-%m-%d" date (of
\* January 1970, which is as far as dates go here)
StrptimeRaises(date_str) ==
    ~(/\ Len(date_str) = 10
      /\ SubSeq(date_str, 1, 8) = "1970-01-"
      /\ IsDigit(SubSeq(date_str, 9, 9))
      /\ IsDigit(SubSeq(date_str, 10, 10))
      /\ DayOfMonth(date_str) - 1 \in Days)

get_minimum_cursor == <<"", "", 0, "">>

\* an Exception is raised inside the try block of load_cursor: open or
\* json.load raises, cursor_data has no .get, or the date does not parse
LoadCursorTryRaisesFor(file, partition) ==
    \/ file.kind = "corrupt"
    \/ file.kind = "not_mapping"
    \/ /\ file.kind = "ok"
       /\ partition \in DOMAIN file.data
       /\ StrptimeRaises(file.data[partition].date)

LoadCursorTryRaises(file) == LoadCursorTryRaisesFor(file, Partition)

\* the load without its "except Exception" handler: what the try block
\* returns where it does not raise, a cursor nothing wrote elsewhere
load_cursor_NoHandler(file) ==
    IF file.kind = "missing" THEN get_minimum_cursor
    ELSE IF LoadCursorTryRaises(file) THEN <<"project2", "SPAN", 30, "t-trace1">>
    ELSE IF Partition \notin DOMAIN file.data THEN get_minimum_cursor
    ELSE LET partition_cursor == file.data[Partition]
         IN  <<partition_cursor.project_id, partition_cursor.type,
               strptime(partition_cursor.date), partition_cursor.id>>

\* load_cursor of a process whose configured partition is partition
load_cursor_for(file, partition) ==
    IF file.kind = "missing" THEN get_minimum_cursor
    ELSE IF LoadCursorTryRaisesFor(file, partition) THEN get_minimum_cursor
    ELSE IF partition \notin DOMAIN file.data THEN get_minimum_cursor
    ELSE LET partition_cursor == file.data[partition]
         IN  <<partition_cursor.project_id, partition_cursor.type,
               strptime(partition_cursor.date), partition_cursor.id>>

load_cursor(file) == load_cursor_for(file, Partition)

\* what the write at the end of save_cursor does: "written", "open_failed"
\* (open raises, the file is as it was) or "dump_failed" (the file was
\* truncated by open and json.dump did not complete)
WriteOutcomes == {"written", "open_failed", "dump_failed"}

\* save_cursor raises: "cursor_data[self.config.partition] = ..." is outside
\* any try and cursor_data, as loaded, is not a dict
SaveCursorRaises(file) == file.kind = "not_mapping"

save_cursor(file, cursor, outcome) ==
    LET cursor_data == IF file.kind = "ok" THEN file.data ELSE <<>>
        updated == [p \in (DOMAIN cursor_data) \cup {Partition} |->
                       IF p = Partition THEN CursorEntry(cursor) ELSE cursor_data[p]]
    IN  CASE outcome = "written" -> JsonFile(updated)
          [] outcome = "open_failed" -> file
          [] outcome = "dump_failed" -> CorruptFile

---------------------------------------------------------------------------
(* Paginated Source Reader *)

\* (a, b, c, d) >= (w, x, y, z) on (String, String, Date, String)
TupleGE(k, c) ==
    \/ StrLess(c[1], k[1])
    \/ /\ k[1] = c[1]
       /\ \/ StrLess(c[2], k[2])
          \/ /\ k[2] = c[2]
             /\ \/ c[3] < k[3]
                \/ /\ k[3] = c[3]
                   /\ \/ StrLess(c[4], k[4])
                      \/ k[4] = c[4]

\* the sort key of the query: project_id, type, toDate(start_time), id
SortKey(r) == <<r.project_id, r.type, ToDate(r.start_time), r.id>>

\* the WHERE clause without its seek predicate
Selected_NoSeek(table, cursor) ==
    {r \in table : r.partition_id = Partition /\ r.is_deleted = 0}

\* the WHERE clause of the page query
Selected(table, cursor) ==
    {r \in table : /\ r.partition_id = Partition
                   /\ r.is_deleted = 0
                   /\ TupleGE(SortKey(r), cursor)}

RECURSIVE OrderBy(_)
OrderBy(S) ==
    IF S = {} THEN <<>>
    ELSE LET first == CHOOSE r \in S : \A q \in S : TupleGE(SortKey(q), SortKey(r))
         IN  <<first>> \o OrderBy(S \ {first})

Limit(s, n) == SubSeq(s, 1, IF Len(s) < n THEN Len(s) ELSE n)

\* the page query of stream_observations
QueryPage(table, cursor, limit) == Limit(OrderBy(Selected(table, cursor)), limit)

\* current_cursor = (row[0], row[7], row[4].date(), row[1]); start_time is
\* a non-nullable column, so the 1970-01-01 fallback is never taken
RowCursor(row) == <<row.project_id, row.type, ToDate(row.start_time), row.id>>

---------------------------------------------------------------------------
(* Side-Table Loader *)

RECURSIVE JoinQuoted(_)
JoinQuoted(tags) ==
    IF Len(tags) = 0 THEN ""
    ELSE IF Len(tags) = 1 THEN "\"" \o tags[1] \o "\""
    ELSE "\"" \o tags[1] \o "\", " \o JoinQuoted(Tail(tags))

\* json.dumps of a list of plain strings
JsonDumpsList(tags) == "[" \o JoinQuoted(tags) \o "]"

OrEmpty(s) == IF s = Null THEN "" ELSE s

\* a Bool column of a query row: <<>> is None, <<b>> is the value b
NoneBool == <<>>
SomeBool(b) == <<b>>

\* "row[6] or False", "row[7] or False"
OrFalse(x) == IF x = NoneBool THEN FALSE ELSE x[1]

\* the entry load_trace_attrs stores for one row of the traces query
TraceAttrEntry(row) ==
    LET metadata == IF row.metadata.tag = "dict" THEN row.metadata.items ELSE <<>>
        with_tags == IF row.tags # <<>>
                     THEN DictSet(metadata, "trace_tags", JsonDumpsList(row.tags))
                     ELSE metadata
    IN  [user_id |-> OrEmpty(row.user_id),
         session_id |-> OrEmpty(row.session_id),
         metadata |-> with_tags,
         public |-> OrFalse(row.public),
         bookmarked |-> OrFalse(row.bookmarked),
         release |-> OrEmpty(row.release)]

\* self.trace_attrs after load_trace_attrs
load_trace_attrs(table) ==
    LET result == {r \in table : r.partition_id = Partition /\ r.is_deleted = 0}
    IN  [key \in {<<r.project_id, r.id>> : r \in result} |->
            TraceAttrEntry(CHOOSE r \in result : <<r.project_id, r.id>> = key)]

---------------------------------------------------------------------------
(* Record Transformer *)

\* trace_attr.get(field, default) on self.trace_attrs.get(key, {})
DefaultTraceAttr ==
    [user_id |-> "", session_id |-> "", metadata |-> <<>>,
     public |-> FALSE, bookmarked |-> FALSE, release |-> ""]

TraceAttrOf(attrs, project_id, trace_id) ==
    IF <<project_id, trace_id>> \in DOMAIN attrs
    THEN attrs[<<project_id, trace_id>>]
    ELSE DefaultTraceAttr

\* truth value of a nullable string
Truthy(s) == s # Null /\ s # ""

\* metadata or {}
ObsMetadata(row) ==
    IF row.metadata.tag = "dict" THEN row.metadata
    ELSE IF row.metadata.tag = "none" THEN DictValue(<<>>)
    ELSE row.metadata

\* a transform that indexes the side-table and raises KeyError when the
\* trace has no entry
TransformRaises_KeyError(row, attrs) ==
    \/ ObsMetadata(row).tag # "dict"
    \/ <<row.project_id, row.trace_id>> \notin DOMAIN attrs

\* {**obs_metadata, **trace_metadata} raises TypeError unless obs_metadata
\* is a mapping
TransformRaises(row, attrs) == ObsMetadata(row).tag # "dict"

\* the parent link without the fallback to the synthetic root id
ParentSpanId_NoFallback(obs_id, trace_id, parent_observation_id) ==
    IF obs_id = "t-" \o trace_id THEN "" ELSE parent_observation_id

ParentSpanId(obs_id, trace_id, parent_observation_id) ==
    IF obs_id = "t-" \o trace_id THEN ""
    ELSE IF Truthy(parent_observation_id) THEN parent_observation_id
    ELSE "t-" \o trace_id

\* a root test that takes only the empty string for "no parent"
IsRoot_EmptyStringOnly(parent_observation_id) == parent_observation_id = ""

\* "not parent_observation_id or parent_observation_id == ''"
IsRoot(parent_observation_id) ==
    ~Truthy(parent_observation_id) \/ parent_observation_id = ""

\* the bookmark flag copied from the side-table whatever the parent is
Bookmarked_NoRootCheck(trace_attr, parent_observation_id) == trace_attr.bookmarked

Bookmarked(trace_attr, parent_observation_id) ==
    trace_attr.bookmarked /\ IsRoot(parent_observation_id)

\* a provenance test on "the observation has metadata"
Source_AnyMetadata(obs_metadata) ==
    IF obs_metadata # <<>> THEN "otel" ELSE "ingestion-api"

\* "otel" if "resourceAttributes" in obs_metadata else "ingestion-api"
Source(obs_metadata) ==
    IF "resourceAttributes" \in Keys(obs_metadata) THEN "otel" ELSE "ingestion-api"

transform_observation_to_event(row, attrs) ==
    LET trace_attr == TraceAttrOf(attrs, row.project_id, row.trace_id)
        obs_metadata == ObsMetadata(row).items
        merged_metadata == DictMerge(obs_metadata, trace_attr.metadata)
    IN  [project_id |-> row.project_id,
         trace_id |-> row.trace_id,
         span_id |-> row.id,
         parent_span_id |-> ParentSpanId(row.id, row.trace_id, row.parent_observation_id),
         start_time |-> row.start_time,
         type |-> OrEmpty(row.type),
         release |-> trace_attr.release,
         user_id |-> trace_attr.user_id,
         session_id |-> trace_attr.session_id,
         public |-> trace_attr.public,
         bookmarked |-> Bookmarked(trace_attr, row.parent_observation_id),
         metadata_names |-> [i \in DOMAIN merged_metadata |-> merged_metadata[i][1]],
         metadata_raw_values |->
             [i \in DOMAIN merged_metadata |-> PyStr(merged_metadata[i][2])],
         source |-> Source(obs_metadata),
         is_deleted |-> 0]

---------------------------------------------------------------------------
(* The tables and the cursor files a run may start from *)

BaseKey == [project_id |-> "project1", type |-> "GENERATION", start_time |-> 30, id |-> "obs1"]

\* the base key and the four keys that differ from it in one component, so
\* that each component of the sort key decides the order of some pair
KeySpace ==
    {k \in [project_id : {"project1", "project2"}, type : {"GENERATION", "SPAN"},
            start_time : {30, 50}, id : {"obs1", "t-trace1"}] :
        Cardinality({f \in DOMAIN k : k[f] # BaseKey[f]}) <= 1}

ObservationRow(k, metadata, partition_id, is_deleted) ==
    [partition_id |-> partition_id,
     is_deleted |-> is_deleted,
     project_id |-> k.project_id,
     id |-> k.id,
     trace_id |-> "trace1",
     parent_observation_id |-> IF k.id = "t-trace1" THEN Null ELSE "t-trace1",
     start_time |-> k.start_time,
     type |-> k.type,
     metadata |-> metadata]

\* live rows of the partition; a row whose metadata is not a mapping makes
\* the transform raise
LiveRows ==
    {ObservationRow(k, m, Partition, 0) : k \in KeySpace, m \in {DictValue(<<>>), StrValue}}

\* rows every table holds and no page may return: a soft-deleted row of
\* the partition and a row of another partition
OtherRows ==
    {ObservationRow([BaseKey EXCEPT !.start_time = 50], DictValue(<<>>), Partition, 1),
     ObservationRow([BaseKey EXCEPT !.type = "SPAN"], DictValue(<<>>), OtherPartition, 0)}

Datasets ==
    {S \cup OtherRows : S \in
        {T \in SUBSET LiveRows :
            /\ Cardinality(T) <= MaxRows
            /\ \A a, b \in T : SortKey(a) = SortKey(b) => a = b}}

TracesTable ==
    {[partition_id |-> Partition, is_deleted |-> 0, project_id |-> "project1",
      id |-> "trace1", user_id |-> "user1", session_id |-> Null,
      metadata |-> NoneValue, tags |-> <<>>, public |-> SomeBool(FALSE),
      bookmarked |-> SomeBool(TRUE), release |-> Null]}

\* no file yet, a file another partition's run left, and a file an earlier
\* run of this partition left as well
InitialCursorFiles ==
    {MissingFile,
     JsonFile(OtherPartition :> CursorEntry(<<"project1", "SPAN", 1, "obs1">>)),
     JsonFile(OtherPartition :> CursorEntry(<<"project1", "SPAN", 1, "obs1">>)
              @@ Partition :> CursorEntry(<<"project1", "GENERATION", 1, "t-trace1">>)),
     JsonFile(OtherPartition :> CursorEntry(<<"project1", "SPAN", 1, "obs1">>)
              @@ Partition :> [CursorEntry(<<"project1", "GENERATION", 1, "t-trace1">>)
                                  EXCEPT !.date = "02/01/1970"]),
     CorruptFile,
     NotMappingFile}

ZeroStats ==
    [trace_attrs_loaded |-> 0, observations_processed |-> 0,
     events_inserted |-> 0, errors |-> 0]

\* per loop iteration: insert calls that returned, insert calls that raised,
\* whether insert_events_batch re-raised, the seconds of each time.sleep of
\* insert_events_batch, save_cursor calls, the outcome of the iteration's
\* cursor file write ("" if there was none), and the cursor file, the seek
\* cursor and the errors and events_inserted counters as they were when the
\* page was fetched
NewIter(file, cursor, st) ==
    [ok |-> 0, failed |-> 0, raised |-> FALSE, waits |-> <<>>, saves |-> 0,
     write |-> "", file |-> file, cursor |-> cursor, errors |-> st.errors,
     inserted |-> st.events_inserted]

---------------------------------------------------------------------------
(* Orchestrator *)

\* a fresh process: ClickHouseBackfill.__init__
NewProcess ==
    /\ pc' = "init"
    /\ trace_attrs' = <<>>
    /\ self_current_cursor' = <<>>
    /\ stats' = ZeroStats
    /\ current_cursor' = get_minimum_cursor
    /\ rows' = <<>>
    /\ row_idx' = 1
    /\ batch' = <<>>
    /\ attempt' = 0
    /\ exit_status' = -1
    /\ pages' = 0
    /\ start_cursor' = get_minimum_cursor
    /\ entry_at_start' = cursor_file
    /\ save_log' = <<>>
    /\ last_confirmed' = <<>>
    /\ write_failures' = 0
    /\ exit_path' = ""
    /\ prev_exit_path' = exit_path
    /\ raised_at' = ""
    /\ iter' = NewIter(cursor_file, get_minimum_cursor, ZeroStats)
    /\ total_count' = -1
    /\ summaries' = 0

Init ==
    /\ batch_size \in 1..MaxBatchSize
    /\ max_retries \in 0..MaxRetries
    /\ dry_run \in BOOLEAN
    /\ observations \in Datasets
    /\ traces = TracesTable
    /\ events = EmptyBag
    /\ cursor_file \in InitialCursorFiles
    /\ run = 1
    /\ pc = "init"
    /\ trace_attrs = <<>>
    /\ self_current_cursor = <<>>
    /\ stats = ZeroStats
    /\ current_cursor = get_minimum_cursor
    /\ rows = <<>>
    /\ row_idx = 1
    /\ batch = <<>>
    /\ attempt = 0
    /\ exit_status = -1
    /\ pages = 0
    /\ start_cursor = get_minimum_cursor
    /\ entry_at_start = cursor_file
    /\ save_log = <<>>
    /\ last_confirmed = <<>>
    /\ write_failures = 0
    /\ exit_path = ""
    /\ prev_exit_path = ""
    /\ raised_at = ""
    /\ iter = NewIter(cursor_file, get_minimum_cursor, ZeroStats)
    /\ total_count = -1
    /\ summaries = 0

\* run(): the configuration is printed and the try block is entered
Start ==
    /\ pc = "init"
    /\ pc' = "connect"
    /\ UNCHANGED <<report_vars, cfg_vars, db_vars, events, cursor_file, run, trace_attrs,
                   self_current_cursor, stats, current_cursor, page_vars,
                   exit_status, pages, hist_vars>>

\* an Exception that is swallowed: the run goes on with its next phase
Raise_Swallowed(at) ==
    /\ pc = at
    /\ pc' = "load_cursor"
    /\ raised_at' = at
    /\ UNCHANGED <<report_vars, cfg_vars, db_vars, events, cursor_file, run, trace_attrs,
                   self_current_cursor, stats, current_cursor, page_vars,
                   exit_status, pages, start_cursor, entry_at_start, save_log,
                   last_confirmed, write_failures, exit_path, prev_exit_path,
                   iter>>

\* a step of the try block that raises an Exception: run() goes to its
\* "except Exception" handler
Raise(at) ==
    /\ pc = at
    /\ pc' = "fatal"
    /\ raised_at' = at
    /\ UNCHANGED <<report_vars, cfg_vars, db_vars, events, cursor_file, run, trace_attrs,
                   self_current_cursor, stats, current_cursor, page_vars,
                   exit_status, pages, start_cursor, entry_at_start, save_log,
                   last_confirmed, write_failures, exit_path, prev_exit_path,
                   iter>>

\* run() going from connect() straight to stream_observations()
Connect_SkipsSideTable ==
    /\ pc = "connect"
    /\ pc' = "load_cursor"
    /\ UNCHANGED <<report_vars, cfg_vars, db_vars, events, cursor_file, run, trace_attrs,
                   self_current_cursor, stats, current_cursor, page_vars,
                   exit_status, pages, hist_vars>>

Connect ==
    /\ pc = "connect"
    /\ pc' = "load_trace_attrs"
    /\ UNCHANGED <<report_vars, cfg_vars, db_vars, events, cursor_file, run, trace_attrs,
                   self_current_cursor, stats, current_cursor, page_vars,
                   exit_status, pages, hist_vars>>

ConnectFails == Raise("connect")

\* Phase 1
LoadTraceAttrs ==
    /\ pc = "load_trace_attrs"
    /\ trace_attrs' = load_trace_attrs(traces)
    /\ stats' = [stats EXCEPT !.trace_attrs_loaded = Cardinality(DOMAIN trace_attrs')]
    /\ pc' = "load_cursor"
    /\ UNCHANGED <<report_vars, cfg_vars, db_vars, events, cursor_file, run,
                   self_current_cursor, current_cursor, page_vars,
                   exit_status, pages, hist_vars>>

LoadTraceAttrsFails == Raise("load_trace_attrs")

\* Phase 2, stream_observations: cursor = self.load_cursor()
LoadCursor ==
    /\ pc = "load_cursor"
    /\ current_cursor' = load_cursor(cursor_file)
    /\ start_cursor' = current_cursor'
    /\ pc' = "count"
    /\ UNCHANGED <<report_vars, cfg_vars, db_vars, events, cursor_file, run, trace_attrs,
                   self_current_cursor, stats, page_vars, exit_status, pages,
                   entry_at_start, save_log, last_confirmed, write_failures,
                   exit_path, prev_exit_path, raised_at, iter>>

\* SELECT count() of the partition's rows that are not deleted
get_observation_count(table) ==
    Cardinality({r \in table : r.partition_id = Partition /\ r.is_deleted = 0})

\* total_count = self.get_observation_count(): the progress bar's total
GetObservationCount ==
    /\ pc = "count"
    /\ total_count' = get_observation_count(observations)
    /\ pc' = "fetch"
    /\ UNCHANGED <<summaries, cfg_vars, db_vars, events, cursor_file, run, trace_attrs,
                   self_current_cursor, stats, current_cursor, page_vars,
                   exit_status, pages, hist_vars>>

\* the count query answering with some other number, as it does when rows
\* are written or deleted between the count and the scan: fewer than any
\* scan meets, or more
CountValues == {0, MaxRows + 1}

GetObservationCountAny ==
    /\ pc = "count"
    /\ total_count' \in CountValues
    /\ pc' = "fetch"
    /\ UNCHANGED <<summaries, cfg_vars, db_vars, events, cursor_file, run, trace_attrs,
                   self_current_cursor, stats, current_cursor, page_vars,
                   exit_status, pages, hist_vars>>

GetObservationCountFails == Raise("count")

\* top of the while loop: the page query, and the break on an empty page
FetchPage ==
    /\ pc = "fetch"
    /\ pages < MaxPages
    /\ pages' = pages + 1
    /\ rows' = QueryPage(observations, current_cursor, batch_size)
    /\ row_idx' = 1
    /\ batch' = <<>>
    /\ attempt' = 0
    /\ iter' = NewIter(cursor_file, current_cursor, stats)
    /\ pc' = IF rows' = <<>> THEN "finish" ELSE "transform"
    /\ UNCHANGED <<report_vars, cfg_vars, db_vars, events, cursor_file, run, trace_attrs,
                   self_current_cursor, stats, current_cursor, exit_status,
                   start_cursor, entry_at_start, save_log, last_confirmed, write_failures,
                   exit_path, prev_exit_path, raised_at>>

FetchPageFails == Raise("fetch")

\* a loop that calls insert_events_batch for an empty batch as well
AfterRows_AlwaysInsert(b) == "insert"

\* where the loop goes after the last row of the page: "if batch:"
AfterRows(b) == IF b # <<>> THEN "insert" ELSE "check"

\* a transform that takes the trace's entry out of the side-table as it
\* reads it
TransformRow_PopsEntry ==
    /\ pc = "transform"
    /\ ~TransformRaises(rows[row_idx], trace_attrs)
    /\ batch' = Append(batch, transform_observation_to_event(rows[row_idx], trace_attrs))
    /\ trace_attrs' =
          [key \in DOMAIN trace_attrs \ {<<rows[row_idx].project_id, rows[row_idx].trace_id>>}
              |-> trace_attrs[key]]
    /\ stats' = [stats EXCEPT !.observations_processed = @ + 1]
    /\ current_cursor' = RowCursor(rows[row_idx])
    /\ row_idx' = row_idx + 1
    /\ pc' = IF row_idx = Len(rows) THEN AfterRows(batch') ELSE "transform"
    /\ UNCHANGED <<report_vars, cfg_vars, db_vars, events, cursor_file, run,
                   self_current_cursor, rows, attempt, exit_status, pages, hist_vars>>

\* one pass of "for row in rows" whose transform succeeds
TransformRow ==
    /\ pc = "transform"
    /\ ~TransformRaises(rows[row_idx], trace_attrs)
    /\ batch' = Append(batch, transform_observation_to_event(rows[row_idx], trace_attrs))
    /\ stats' = [stats EXCEPT !.observations_processed = @ + 1]
    /\ current_cursor' = RowCursor(rows[row_idx])
    /\ row_idx' = row_idx + 1
    /\ pc' = IF row_idx = Len(rows) THEN AfterRows(batch') ELSE "transform"
    /\ UNCHANGED <<report_vars, cfg_vars, db_vars, events, cursor_file, run, trace_attrs,
                   self_current_cursor, rows, attempt, exit_status, pages, hist_vars>>

\* a transform failure that throws the batch built so far away
TransformRowError_DropsBatch ==
    /\ pc = "transform"
    /\ TransformRaises(rows[row_idx], trace_attrs)
    /\ stats' = [stats EXCEPT !.errors = @ + 1]
    /\ row_idx' = row_idx + 1
    /\ batch' = <<>>
    /\ pc' = IF row_idx = Len(rows) THEN AfterRows(batch') ELSE "transform"
    /\ UNCHANGED <<report_vars, cfg_vars, db_vars, events, cursor_file, run, trace_attrs,
                   self_current_cursor, current_cursor, rows, attempt,
                   exit_status, pages, hist_vars>>

\* a transform failure that still moves the cursor to the fetched row
TransformRowError_AdvancesCursor ==
    /\ pc = "transform"
    /\ TransformRaises(rows[row_idx], trace_attrs)
    /\ stats' = [stats EXCEPT !.errors = @ + 1]
    /\ row_idx' = row_idx + 1
    /\ current_cursor' = RowCursor(rows[row_idx])
    /\ pc' = IF row_idx = Len(rows) THEN AfterRows(batch) ELSE "transform"
    /\ UNCHANGED <<report_vars, cfg_vars, db_vars, events, cursor_file, run, trace_attrs,
                   self_current_cursor, rows, batch, attempt,
                   exit_status, pages, hist_vars>>

\* one pass of "for row in rows" whose transform raises: counted and skipped
TransformRowError ==
    /\ pc = "transform"
    /\ TransformRaises(rows[row_idx], trace_attrs)
    /\ stats' = [stats EXCEPT !.errors = @ + 1]
    /\ row_idx' = row_idx + 1
    /\ pc' = IF row_idx = Len(rows) THEN AfterRows(batch) ELSE "transform"
    /\ UNCHANGED <<report_vars, cfg_vars, db_vars, events, cursor_file, run, trace_attrs,
                   self_current_cursor, current_cursor, rows, batch, attempt,
                   exit_status, pages, hist_vars>>

---------------------------------------------------------------------------
(* Batched Writer: insert_events_batch(batch), entered with a non-empty batch *)

Range(s) == {s[i] : i \in DOMAIN s}

\* the rows one insert call adds to the events table
BagOfBatch(b) == [e \in Range(b) |-> Cardinality({i \in DOMAIN b : b[i] = e})]

\* the retry test giving up one attempt early
WillRetry_OneShort(att, retries) == att < retries - 2

\* "if attempt < self.config.max_retries - 1": sleep and try again
WillRetry(att, retries) == att < retries - 1

\* a wait that grows by one second per attempt
Backoff_Linear(att) == att + 1

\* "wait_time = 2 ** attempt"
Backoff(att) == 2 ^ att

\* "if self.config.dry_run: return"
InsertDryRun ==
    /\ pc = "insert"
    /\ dry_run
    /\ pc' = "checkpoint"
    /\ UNCHANGED <<report_vars, cfg_vars, db_vars, events, cursor_file, run, trace_attrs,
                   self_current_cursor, stats, current_cursor, page_vars,
                   exit_status, pages, hist_vars>>

\* "for attempt in range(self.config.max_retries)" has nothing (left) to
\* run: the function falls off its end and returns None
InsertLoopEnds ==
    /\ pc = "insert"
    /\ ~dry_run
    /\ ~(attempt < max_retries)
    /\ pc' = "checkpoint"
    /\ UNCHANGED <<report_vars, cfg_vars, db_vars, events, cursor_file, run, trace_attrs,
                   self_current_cursor, stats, current_cursor, page_vars,
                   exit_status, pages, hist_vars>>

\* an attempt whose insert_client.insert returns
InsertSucceeds ==
    /\ pc = "insert"
    /\ ~dry_run
    /\ attempt < max_retries
    /\ events' = events (+) BagOfBatch(batch)
    /\ stats' = [stats EXCEPT !.events_inserted = @ + Len(batch)]
    /\ last_confirmed' = current_cursor
    /\ iter' = [iter EXCEPT !.ok = @ + 1]
    /\ pc' = "checkpoint"
    /\ UNCHANGED <<report_vars, cfg_vars, db_vars, cursor_file, run, trace_attrs,
                   self_current_cursor, current_cursor, page_vars,
                   exit_status, pages, start_cursor, entry_at_start, save_log, write_failures,
                   exit_path, prev_exit_path, raised_at>>

\* an attempt whose insert_client.insert raises, with attempts left:
\* time.sleep(wait_time), then the next attempt
InsertRetry ==
    /\ pc = "insert"
    /\ ~dry_run
    /\ attempt < max_retries
    /\ WillRetry(attempt, max_retries)
    /\ attempt' = attempt + 1
    /\ iter' = [iter EXCEPT !.failed = @ + 1,
                           !.waits = Append(@, Backoff(attempt))]
    /\ UNCHANGED <<report_vars, cfg_vars, db_vars, events, cursor_file, run, trace_attrs,
                   self_current_cursor, stats, current_cursor, rows, row_idx,
                   batch, exit_status, pages, pc, start_cursor, entry_at_start,
                   save_log, last_confirmed, write_failures,
                   exit_path, prev_exit_path, raised_at>>

\* the last attempt raises: errors is raised by the batch length and the
\* exception is re-raised
InsertExhausted ==
    /\ pc = "insert"
    /\ ~dry_run
    /\ attempt < max_retries
    /\ ~WillRetry(attempt, max_retries)
    /\ stats' = [stats EXCEPT !.errors = @ + Len(batch)]
    /\ iter' = [iter EXCEPT !.failed = @ + 1, !.raised = TRUE]
    /\ pc' = "fatal"
    /\ raised_at' = "insert"
    /\ UNCHANGED <<report_vars, cfg_vars, db_vars, events, cursor_file, run, trace_attrs,
                   self_current_cursor, current_cursor, page_vars,
                   exit_status, pages, start_cursor, entry_at_start,
                   save_log, last_confirmed, write_failures,
                   exit_path, prev_exit_path>>

---------------------------------------------------------------------------
(* The rest of the loop and the ways out of run() *)

SaveCall(cursor, site, inserted) ==
    [cursor |-> cursor, site |-> site, inserted |-> inserted]

\* the outcomes a cursor file write may have now
Writes == IF write_failures < MaxWriteFailures THEN WriteOutcomes ELSE {"written"}

Failed(outcome) == IF outcome = "written" THEN 0 ELSE 1

\* an interrupt cursor left at the cursor the iteration started from
Checkpoint_KeepsPageStart ==
    /\ pc = "checkpoint"
    /\ self_current_cursor' = iter.cursor
    /\ pc' = "save"
    /\ UNCHANGED <<report_vars, cfg_vars, db_vars, events, cursor_file, run, trace_attrs,
                   stats, current_cursor, page_vars, exit_status, pages, hist_vars>>

\* self.current_cursor = current_cursor
Checkpoint ==
    /\ pc = "checkpoint"
    /\ self_current_cursor' = current_cursor
    /\ pc' = "save"
    /\ UNCHANGED <<report_vars, cfg_vars, db_vars, events, cursor_file, run, trace_attrs,
                   stats, current_cursor, page_vars, exit_status, pages, hist_vars>>

\* self.save_cursor(current_cursor)
SaveCheckpoint ==
    /\ pc = "save"
    /\ ~SaveCursorRaises(cursor_file)
    /\ \E outcome \in Writes :
          /\ cursor_file' = save_cursor(cursor_file, current_cursor, outcome)
          /\ write_failures' = write_failures + Failed(outcome)
          /\ iter' = [iter EXCEPT !.saves = @ + 1, !.write = outcome]
    /\ save_log' = Append(save_log, SaveCall(current_cursor, "loop", iter.ok > 0))
    /\ pc' = "check"
    /\ UNCHANGED <<report_vars, cfg_vars, db_vars, events, run, trace_attrs,
                   self_current_cursor, stats, current_cursor, page_vars,
                   exit_status, pages, start_cursor, entry_at_start, last_confirmed,
                   exit_path, prev_exit_path, raised_at>>

\* self.save_cursor(current_cursor) raises before it writes: the exception
\* leaves stream_observations for the "except Exception" of run()
SaveCheckpointRaises ==
    /\ pc = "save"
    /\ SaveCursorRaises(cursor_file)
    /\ save_log' = Append(save_log, SaveCall(current_cursor, "loop", iter.ok > 0))
    /\ iter' = [iter EXCEPT !.saves = @ + 1]
    /\ raised_at' = "save"
    /\ pc' = "fatal"
    /\ UNCHANGED <<report_vars, cfg_vars, db_vars, events, cursor_file, run, trace_attrs,
                   self_current_cursor, stats, current_cursor, page_vars,
                   exit_status, pages, start_cursor, entry_at_start, last_confirmed,
                   write_failures, exit_path, prev_exit_path>>

\* the page test that takes a full page for a short one
ShortPage_OffByOne(page, limit) == Len(page) <= limit

\* "len(rows) < self.config.batch_size"
ShortPage(page, limit) == Len(page) < limit

\* a loop that also stops once the rows processed reach the count
CheckPage_StopsAtCount ==
    /\ pc = "check"
    /\ pc' = IF \/ ShortPage(rows, batch_size)
                \/ stats.observations_processed >= total_count
             THEN "finish" ELSE "fetch"
    /\ UNCHANGED <<report_vars, cfg_vars, db_vars, events, cursor_file, run, trace_attrs,
                   self_current_cursor, stats, current_cursor, page_vars,
                   exit_status, pages, hist_vars>>

\* "if len(rows) < self.config.batch_size: break"
CheckPage ==
    /\ pc = "check"
    /\ pc' = IF ShortPage(rows, batch_size) THEN "finish" ELSE "fetch"
    /\ UNCHANGED <<report_vars, cfg_vars, db_vars, events, cursor_file, run, trace_attrs,
                   self_current_cursor, stats, current_cursor, page_vars,
                   exit_status, pages, hist_vars>>

\* stream_observations returns; the summary is printed; run() returns
Finish ==
    /\ pc = "finish"
    /\ summaries' = summaries + 1
    /\ exit_status' = 0
    /\ exit_path' = "done"
    /\ pc' = "exit"
    /\ UNCHANGED <<total_count, cfg_vars, db_vars, events, cursor_file, run, trace_attrs,
                   self_current_cursor, stats, current_cursor, page_vars,
                   pages, start_cursor, entry_at_start, save_log, last_confirmed,
                   write_failures, prev_exit_path, raised_at, iter>>

\* the positions inside the try block of run()
TryBlock ==
    {"connect", "load_trace_attrs", "load_cursor", "count", "fetch",
     "transform", "insert", "checkpoint", "save", "check", "finish"}

\* except KeyboardInterrupt: "if self.current_cursor:" save it; the summary is
\* printed, sys.exit(1).  file, log and it are the cursor file, the save
\* history and the iteration record as the interrupt found them.  A
\* save_cursor that raises leaves the handler before print_summary.
KeyboardInterruptExit(file, log, it) ==
    /\ IF self_current_cursor = <<>>
       THEN /\ cursor_file' = file
            /\ write_failures' = write_failures
            /\ save_log' = log
            /\ raised_at' = raised_at
       ELSE /\ save_log' = Append(log,
                  SaveCall(self_current_cursor, "interrupt", last_confirmed # <<>>))
            /\ IF SaveCursorRaises(file)
               THEN \* the exception leaves the handler: traceback, status 1
                    /\ cursor_file' = file
                    /\ write_failures' = write_failures
                    /\ raised_at' = "interrupt_save"
               ELSE /\ \E outcome \in Writes :
                          /\ cursor_file' = save_cursor(file, self_current_cursor, outcome)
                          /\ write_failures' = write_failures + Failed(outcome)
                    /\ raised_at' = raised_at
    /\ iter' = it
    /\ summaries' = IF raised_at' = "interrupt_save" THEN summaries ELSE summaries + 1
    /\ exit_status' = 1
    /\ exit_path' = "interrupt"
    /\ pc' = "exit"
    /\ UNCHANGED <<total_count, cfg_vars, db_vars, events, run, trace_attrs,
                   self_current_cursor, stats, current_cursor, page_vars,
                   pages, start_cursor, entry_at_start, last_confirmed,
                   prev_exit_path>>

\* a KeyboardInterrupt between two steps of the try block
Interrupt ==
    /\ pc \in TryBlock
    /\ KeyboardInterruptExit(cursor_file, save_log, iter)

\* a KeyboardInterrupt inside save_cursor, after open(cursor_file, 'w')
\* truncated the file and before json.dump completed
InterruptDuringSave ==
    /\ pc = "save"
    /\ ~SaveCursorRaises(cursor_file)
    /\ KeyboardInterruptExit(CorruptFile,
          Append(save_log, SaveCall(current_cursor, "loop", iter.ok > 0)),
          [iter EXCEPT !.saves = @ + 1])

\* an "except Exception" handler that leaves with status 0
HandleFatal_StatusZero ==
    /\ pc = "fatal"
    /\ summaries' = summaries + 1
    /\ exit_status' = 0
    /\ exit_path' = "fatal"
    /\ pc' = "exit"
    /\ UNCHANGED <<total_count, cfg_vars, db_vars, events, cursor_file, run, trace_attrs,
                   self_current_cursor, stats, current_cursor, page_vars,
                   pages, start_cursor, entry_at_start, save_log, last_confirmed,
                   write_failures, prev_exit_path, raised_at, iter>>

\* except Exception: the summary is printed, sys.exit(1)
HandleFatal ==
    /\ pc = "fatal"
    /\ summaries' = summaries + 1
    /\ exit_status' = 1
    /\ exit_path' = "fatal"
    /\ pc' = "exit"
    /\ UNCHANGED <<total_count, cfg_vars, db_vars, events, cursor_file, run, trace_attrs,
                   self_current_cursor, stats, current_cursor, page_vars,
                   pages, start_cursor, entry_at_start, save_log, last_confirmed,
                   write_failures, prev_exit_path, raised_at, iter>>

\* the operator starts the script again on the same tables and cursor file,
\* with or without --dry-run
Restart ==
    /\ pc = "exit"
    /\ run < MaxRuns
    /\ run' = run + 1
    /\ dry_run' \in BOOLEAN
    /\ NewProcess
    /\ UNCHANGED <<batch_size, max_retries, db_vars, events, cursor_file>>

Next ==
    \/ Start
    \/ Connect
    \/ ConnectFails
    \/ LoadTraceAttrs
    \/ LoadTraceAttrsFails
    \/ LoadCursor
    \/ GetObservationCount
    \/ GetObservationCountFails
    \/ FetchPage
    \/ FetchPageFails
    \/ TransformRow
    \/ TransformRowError
    \/ InsertDryRun
    \/ InsertLoopEnds
    \/ InsertSucceeds
    \/ InsertRetry
    \/ InsertExhausted
    \/ Checkpoint
    \/ SaveCheckpoint
    \/ SaveCheckpointRaises
    \/ CheckPage
    \/ Finish
    \/ Interrupt
    \/ InterruptDuringSave
    \/ HandleFatal

Spec == Init /\ [][Next]_vars

\* several runs, one after the other, on the same tables and cursor file
NextRuns == Next \/ Restart

\* the first of the runs finds no cursor file, or one that is not a JSON
\* object
InitRuns == Init /\ cursor_file \in {MissingFile, NotMappingFile}

SpecRuns == InitRuns /\ [][NextRuns]_vars

\* one run in which the count query may answer with any number
NextCount == Next \/ GetObservationCountAny

SpecCount == InitRuns /\ [][NextCount]_vars

---------------------------------------------------------------------------
(* The transformer alone: the for loop over a page of one row, for every
   shape of row and side-table, and over the page of a trace's root
   observation and one child *)

TransformRows ==
    {[partition_id |-> Partition,
      is_deleted |-> 0,
      project_id |-> "project1",
      id |-> id,
      trace_id |-> trace_id,
      parent_observation_id |-> parent,
      start_time |-> 30,
      type |-> "SPAN",
      metadata |-> metadata] :
        id \in {"obs1", "t-trace1", "t-trace2"},
        trace_id \in {"trace1", "trace2"},
        parent \in {Null, "", "obs2", "t-trace1"},
        metadata \in {NoneValue, DictValue(<<>>),
                      DictValue(<< <<"resourceAttributes", "{}">> >>),
                      DictValue(<< <<"env", "obs">>, <<"k", "obs">> >>),
                      StrValue}}

SideTables ==
    {<<>>, load_trace_attrs(TracesTable)} \cup
    {<<"project1", "trace1">> :>
        [DefaultTraceAttr EXCEPT !.bookmarked = b, !.metadata = m] :
        b \in BOOLEAN,
        m \in {<<>>,
               << <<"k", "trace">>, <<"trace_tags", "[\"a\"]">> >>,
               << <<"resourceAttributes", "{}">> >>}}

\* the page the reader returns for a table of two observations of trace1:
\* obs1, whose parent is t-trace1, and t-trace1, which has no parent
RootAndChildPage ==
    QueryPage({ObservationRow(BaseKey, DictValue(<<>>), Partition, 0),
               ObservationRow([BaseKey EXCEPT !.id = "t-trace1"], DictValue(<<>>),
                              Partition, 0)},
              get_minimum_cursor, MaxRows)

InitTransform ==
    /\ batch_size = MaxRows
    /\ max_retries = 1
    /\ dry_run = FALSE
    /\ observations = {}
    /\ traces = {}
    /\ events = EmptyBag
    /\ cursor_file = MissingFile
    /\ run = 1
    /\ pc = "transform"
    /\ trace_attrs \in SideTables
    /\ self_current_cursor = <<>>
    /\ stats = ZeroStats
    /\ current_cursor = get_minimum_cursor
    /\ rows \in {<<r>> : r \in TransformRows} \cup {RootAndChildPage}
    /\ row_idx = 1
    /\ batch = <<>>
    /\ attempt = 0
    /\ exit_status = -1
    /\ pages = 1
    /\ start_cursor = get_minimum_cursor
    /\ entry_at_start = cursor_file
    /\ save_log = <<>>
    /\ last_confirmed = <<>>
    /\ write_failures = 0
    /\ exit_path = ""
    /\ prev_exit_path = ""
    /\ raised_at = ""
    /\ iter = NewIter(cursor_file, get_minimum_cursor, ZeroStats)
    /\ total_count = -1
    /\ summaries = 0

NextTransform == TransformRow \/ TransformRowError

SpecTransform == InitTransform /\ [][NextTransform]_vars

---------------------------------------------------------------------------
(* The side-table loader alone: Phase 1 on a traces table with one live row
   of every shape, next to a deleted row and a row of another partition *)

TraceRows ==
    {[partition_id |-> Partition, is_deleted |-> 0, project_id |-> "project1",
      id |-> "trace1", user_id |-> u, session_id |-> se, metadata |-> m,
      tags |-> t, public |-> p, bookmarked |-> b, release |-> rel] :
        u \in {Null, "user1"},
        se \in {Null, "session1"},
        m \in {NoneValue, DictValue(<<>>),
               DictValue(<< <<"k", "trace">> >>),
               DictValue(<< <<"trace_tags", "old">>, <<"k", "trace">> >>)},
        t \in {<<>>, <<"a">>, <<"a", "b">>},
        p \in {NoneBool, SomeBool(FALSE), SomeBool(TRUE)},
        b \in {NoneBool, SomeBool(FALSE), SomeBool(TRUE)},
        rel \in {Null, "v1"}}

\* rows the traces query must not return
OtherTraceRows ==
    {[partition_id |-> Partition, is_deleted |-> 1, project_id |-> "project1",
      id |-> "trace2", user_id |-> "user1", session_id |-> Null,
      metadata |-> NoneValue, tags |-> <<"a">>, public |-> SomeBool(TRUE),
      bookmarked |-> SomeBool(TRUE), release |-> Null],
     [partition_id |-> OtherPartition, is_deleted |-> 0, project_id |-> "project2",
      id |-> "trace1", user_id |-> "user1", session_id |-> Null,
      metadata |-> NoneValue, tags |-> <<"a">>, public |-> SomeBool(TRUE),
      bookmarked |-> SomeBool(TRUE), release |-> Null]}

InitLoader ==
    /\ batch_size = 1
    /\ max_retries = 1
    /\ dry_run = FALSE
    /\ observations = {}
    /\ traces \in {{r} \cup OtherTraceRows : r \in TraceRows}
    /\ events = EmptyBag
    /\ cursor_file = MissingFile
    /\ run = 1
    /\ pc = "load_trace_attrs"
    /\ trace_attrs = <<>>
    /\ self_current_cursor = <<>>
    /\ stats = ZeroStats
    /\ current_cursor = get_minimum_cursor
    /\ rows = <<>>
    /\ row_idx = 1
    /\ batch = <<>>
    /\ attempt = 0
    /\ exit_status = -1
    /\ pages = 0
    /\ start_cursor = get_minimum_cursor
    /\ entry_at_start = cursor_file
    /\ save_log = <<>>
    /\ last_confirmed = <<>>
    /\ write_failures = 0
    /\ exit_path = ""
    /\ prev_exit_path = ""
    /\ raised_at = ""
    /\ iter = NewIter(cursor_file, get_minimum_cursor, ZeroStats)
    /\ total_count = -1
    /\ summaries = 0

NextLoader == LoadTraceAttrs \/ LoadTraceAttrsFails

SpecLoader == InitLoader /\ [][NextLoader]_vars

---------------------------------------------------------------------------
(* The batched writer alone: one call of insert_events_batch with a batch of
   one event, for every retry budget up to MaxInsertRetries *)

InitInsert ==
    /\ batch_size = 1
    /\ max_retries \in 0..MaxInsertRetries
    /\ dry_run \in BOOLEAN
    /\ observations = {}
    /\ traces = {}
    /\ events = EmptyBag
    /\ cursor_file = MissingFile
    /\ run = 1
    /\ pc = "insert"
    /\ trace_attrs = <<>>
    /\ self_current_cursor = <<>>
    /\ stats = [ZeroStats EXCEPT !.observations_processed = 1]
    /\ rows \in {<<r>> : r \in {t \in TransformRows : ~TransformRaises(t, <<>>)}}
    /\ current_cursor = RowCursor(rows[1])
    /\ row_idx = 2
    /\ batch = <<transform_observation_to_event(rows[1], trace_attrs)>>
    /\ attempt = 0
    /\ exit_status = -1
    /\ pages = 1
    /\ start_cursor = get_minimum_cursor
    /\ entry_at_start = cursor_file
    /\ save_log = <<>>
    /\ last_confirmed = <<>>
    /\ write_failures = 0
    /\ exit_path = ""
    /\ prev_exit_path = ""
    /\ raised_at = ""
    /\ iter = NewIter(cursor_file, get_minimum_cursor, ZeroStats)
    /\ total_count = 1
    /\ summaries = 0

NextInsert ==
    \/ InsertDryRun
    \/ InsertLoopEnds
    \/ InsertSucceeds
    \/ InsertRetry
    \/ InsertExhausted

SpecInsert == InitInsert /\ [][NextInsert]_vars

---------------------------------------------------------------------------
(* Properties *)

\* the non-deleted rows of the partition
Live == {r \in observations : r.partition_id = Partition /\ r.is_deleted = 0}

\* the sort key of the row an event was made from
EventKey(e) == <<e.project_id, e.type, ToDate(e.start_time), e.span_id>>

\* the key of the last transformed row of the current batch
LastKey == EventKey(batch[Len(batch)])

\* the cursor file holds an entry for the partition
Persisted(file) == file.kind = "ok" /\ Partition \in DOMAIN file.data

AllSavesFollowInsert == \A i \in DOMAIN save_log : save_log[i].inserted

\* C1: total coverage.  A real run from the minimum cursor over N >= 1 live
\* rows with distinct keys, page size P <= N, no transform, insert or cursor
\* write failure (max_retries = 1 and errors = 0 leave no room for a failed
\* insert), that reaches DONE has transformed every row exactly once and
\* written every row exactly once.
C1_TotalCoverage ==
    (/\ pc = "exit"
     /\ exit_path = "done"
     /\ start_cursor = get_minimum_cursor
     /\ ~dry_run
     /\ max_retries = 1
     /\ stats.errors = 0
     /\ write_failures = 0
     /\ \A r \in Live : ~TransformRaises(r, trace_attrs)
     /\ Cardinality(Live) >= 1
     /\ batch_size <= Cardinality(Live))
    => /\ stats.observations_processed = Cardinality(Live)
       /\ \A r \in Live :
             CopiesIn(transform_observation_to_event(r, trace_attrs), events) = 1

\* C2: idempotent resumption.  In a run that follows a run that reached DONE
\* on a non-empty partition and that loaded the cursor that run persisted,
\* the first page is empty, nothing is transformed or inserted, and the
\* partition's entry of the cursor file stays what it was.
C2_IdempotentResumption ==
    (/\ run >= 2
     /\ prev_exit_path = "done"
     /\ Live # {}
     /\ Persisted(entry_at_start)
     /\ start_cursor = load_cursor(entry_at_start)
     /\ pages >= 1)
    => /\ rows = <<>>
       /\ stats.observations_processed = 0
       /\ stats.events_inserted = 0
       /\ Persisted(cursor_file)
       /\ cursor_file.data[Partition] = entry_at_start.data[Partition]

\* C3: checkpoint only after durable write.  Every save_cursor call of a run
\* passes the key of the last transformed row of a batch for which an insert
\* call had returned before (in the same loop iteration, for the call in the
\* loop).
C3_CheckpointAfterWrite == AllSavesFollowInsert

\* C4: retry success.  insert_events_batch does not give up before
\* max_retries attempts have failed; once an attempt succeeds after
\* k < max_retries failures it has returned normally, the batch has been
\* inserted exactly once, and the iteration makes exactly one save_cursor
\* call, with the key of the batch's last transformed row, which is the
\* partition's entry of the cursor file if no cursor write failed.
C4_RetrySuccess ==
    /\ iter.raised => iter.failed >= max_retries
    /\ iter.saves <= 1
    /\ iter.ok >= 1 =>
          /\ iter.ok = 1
          /\ iter.failed < max_retries
          /\ ~iter.raised
          /\ pc # "insert"
          /\ \A e \in Range(batch) : CopiesIn(e, events) >= 1
          /\ pc \in {"checkpoint", "save"} => iter.saves = 0
          /\ pc \in {"check", "fetch", "finish"} =>
                /\ iter.saves = 1
                /\ save_log[Len(save_log)] = SaveCall(LastKey, "loop", TRUE)
                /\ write_failures = 0 =>
                      /\ Persisted(cursor_file)
                      /\ load_cursor(cursor_file) = LastKey

C4_Witness ==
    /\ pc = "check"
    /\ iter.failed = 1
    /\ iter.ok = 1
    /\ iter.saves = 1
    /\ load_cursor(cursor_file) = LastKey

\* C5: retry exhaustion is fatal.  In a real run insert_events_batch never
\* returns normally for a batch of which no insert succeeded and at least
\* max_retries attempts failed; once it has raised, the run is on its way
\* out with status 1, and the cursor file is as it was when the page was
\* fetched, with no save_cursor call for the batch.
C5_RetryExhaustionFatal ==
    /\ (/\ ~dry_run
        /\ pc \in {"checkpoint", "save"}
        /\ iter.failed >= max_retries)
       => iter.ok >= 1
    /\ iter.raised =>
          /\ pc \in {"fatal", "exit"}
          /\ pc = "exit" => exit_status = 1
          /\ iter.saves = 0
          /\ cursor_file = iter.file

\* C6: dry-run.  A run with dry_run set makes no insert call, counts no
\* inserted event, never calls save_cursor and leaves the cursor file as it
\* found it.
C6_DryRunNoCursor ==
    dry_run =>
       /\ events = EmptyBag
       /\ stats.events_inserted = 0
       /\ save_log = <<>>
       /\ cursor_file = entry_at_start

\* C7: interrupt handling.  After a run left by the KeyboardInterrupt handler
\* in which no cursor write failed, the partition's entry of the cursor file
\* is the key of the last batch whose insert was confirmed in the run; if no
\* batch was confirmed, save_cursor was not called and the file is as at
\* start; and no save_cursor call passed the cursor of an unconfirmed batch.
C7_InterruptKeepsConfirmed ==
    (/\ pc = "exit"
     /\ exit_path = "interrupt"
     /\ write_failures = 0)
    => /\ IF last_confirmed # <<>>
          THEN Persisted(cursor_file) /\ load_cursor(cursor_file) = last_confirmed
          ELSE save_log = <<>> /\ cursor_file = entry_at_start
       /\ AllSavesFollowInsert

\* the loaded start cursor followed by every value passed to save_cursor
CursorSequence == <<start_cursor>> \o [i \in DOMAIN save_log |-> save_log[i].cursor]

\* C8: cursor monotonicity.  Within one run the loaded start cursor followed
\* by the values passed to save_cursor is non-decreasing in the
\* lexicographic order on (project_id, type, date, id).
C8_CursorMonotone ==
    \A i \in 1..(Len(CursorSequence) - 1) :
        TupleGE(CursorSequence[i + 1], CursorSequence[i])

C8_Witness ==
    /\ Len(save_log) >= 2
    /\ start_cursor # get_minimum_cursor
    /\ save_log[1].cursor # start_cursor
    /\ save_log[2].cursor # save_log[1].cursor

\* C9 as stated: every event with bookmarked = true has an empty
\* parent_span_id.
C9_BookmarkedImpliesNoParentLink ==
    \A i \in DOMAIN batch : batch[i].bookmarked => batch[i].parent_span_id = ""

\* C9 as amended: every event with bookmarked = true comes from an
\* observation whose parent_observation_id is null or empty and whose
\* side-table entry is bookmarked; its parent_span_id is empty if the
\* observation id is "t-" + trace_id and is "t-" + trace_id otherwise.
\* (Under SpecTransform a page has one row, so batch[1] comes from rows[1].)
C9_BookmarkedImpliesNoParentReference ==
    (batch # <<>> /\ batch[1].bookmarked) =>
       /\ rows[1].parent_observation_id \in {Null, ""}
       /\ TraceAttrOf(trace_attrs, rows[1].project_id, rows[1].trace_id).bookmarked
       /\ batch[1].parent_span_id =
             IF rows[1].id = "t-" \o rows[1].trace_id THEN ""
             ELSE "t-" \o rows[1].trace_id

C9_Witness ==
    /\ batch # <<>>
    /\ batch[1].bookmarked
    /\ batch[1].parent_span_id = "t-trace1"

\* C10: root/parent invariant.  An event of an observation whose id is
\* "t-" + trace_id has an empty parent_span_id; any other event has a
\* non-empty one, the observation's parent_observation_id if that is present
\* and non-empty and "t-" + trace_id if it is null or empty.
\* (Under SpecTransform a page has one row, so batch[1] comes from rows[1].)
C10_RootParent ==
    batch # <<>> =>
       IF rows[1].id = "t-" \o rows[1].trace_id
       THEN batch[1].parent_span_id = ""
       ELSE /\ batch[1].parent_span_id # ""
            /\ batch[1].parent_span_id # Null
            /\ batch[1].parent_span_id =
                  IF rows[1].parent_observation_id \in {Null, ""}
                  THEN "t-" \o rows[1].trace_id
                  ELSE rows[1].parent_observation_id

C10_Witness ==
    /\ batch # <<>>
    /\ rows[1].id = "obs1"
    /\ rows[1].parent_observation_id = Null
    /\ batch[1].parent_span_id = "t-trace1"

\* C11: metadata flattening.  For the event made from a row, metadata_names
\* and metadata_raw_values have the same length, no name is repeated, the
\* names are the keys of the observation's metadata and of the side-table
\* entry's metadata, and the value at a name's position is the side-table
\* entry's value for it if it has one and the observation's otherwise.
\* (Under SpecTransform a page has one row, so batch[1] comes from rows[1].)
C11_MetadataFlattening ==
    batch # <<>> =>
       LET e == batch[1]
           obs == ObsMetadata(rows[1]).items
           side == TraceAttrOf(trace_attrs, rows[1].project_id, rows[1].trace_id).metadata
       IN  /\ Len(e.metadata_names) = Len(e.metadata_raw_values)
           /\ \A i, j \in DOMAIN e.metadata_names :
                 e.metadata_names[i] = e.metadata_names[j] => i = j
           /\ {e.metadata_names[i] : i \in DOMAIN e.metadata_names}
                 = Keys(obs) \cup Keys(side)
           /\ \A i \in DOMAIN e.metadata_names :
                 e.metadata_raw_values[i] =
                    IF e.metadata_names[i] \in Keys(side)
                    THEN Lookup(side, e.metadata_names[i])
                    ELSE Lookup(obs, e.metadata_names[i])

C11_Witness ==
    /\ batch # <<>>
    /\ batch[1].metadata_names = <<"env", "k", "trace_tags">>
    /\ batch[1].metadata_raw_values = <<"obs", "trace", "[\"a\"]">>

\* the partition's entry of a cursor file is well formed: the file is a JSON
\* object with an entry for the partition whose date is a "%Y-%m-%d" date
WellFormedEntry(file) ==
    /\ file.kind = "ok"
    /\ Partition \in DOMAIN file.data
    /\ \E d \in Days : file.data[Partition].date = strftime(d)

FailedWrites == {"open_failed", "dump_failed"}

\* C13: save_cursor preserves unrelated partitions.  Whatever save_cursor
\* calls a run has made, every entry the cursor file held at the start of
\* the run for a partition other than the configured one is still in the
\* file, unchanged.
C13_OtherPartitionsPreserved ==
    entry_at_start.kind = "ok" =>
       \A q \in DOMAIN entry_at_start.data \ {Partition} :
           /\ cursor_file.kind = "ok"
           /\ q \in DOMAIN cursor_file.data
           /\ cursor_file.data[q] = entry_at_start.data[q]

\* C14: a failed write keeps the prior checkpoint.  After a save_cursor call
\* whose file write failed, on a file that held an entry for the partition,
\* the file is what it was before the call, so that load_cursor returns the
\* cursor it returned before.
C14_FailedWriteKeepsCheckpoint ==
    (/\ pc = "check"
     /\ iter.write \in FailedWrites
     /\ Persisted(iter.file))
    => /\ cursor_file = iter.file
       /\ load_cursor(cursor_file) = load_cursor(iter.file)

\* C15: a cursor write failure never aborts the run.  No save_cursor call of
\* the loop raises, and after a call that did not persist the cursor the
\* loop is at its page test, at the next fetch or at its end, unless a
\* later step raised or the run was interrupted.
C15_SaveFailureNotFatal ==
    /\ raised_at # "save"
    /\ (/\ pc # "exit"
        /\ raised_at = ""
        /\ iter.saves >= 1
        /\ iter.write # "written")
       => pc \in {"check", "fetch", "finish"}

\* C16: scan termination.  The loop is left only after a page with fewer
\* rows than the limit (an empty page included), and a fetch after the first
\* is issued only after a page of exactly limit rows; so a run that reached
\* DONE ended on a short page.
C16_ScanTermination ==
    /\ pc = "finish" => Len(rows) < batch_size
    /\ (pc = "fetch" /\ pages >= 1) => Len(rows) = batch_size
    /\ exit_path = "done" => Len(rows) < batch_size

C16_Witness ==
    /\ pc = "finish"
    /\ pages >= 2
    /\ rows # <<>>
    /\ Len(rows) < batch_size

\* C17: side-table load failure is fatal before any work.  Once the trace
\* attribute query has raised, no page is fetched, nothing is inserted, no
\* save_cursor call is made, the cursor file is as at start, and the run
\* exits with status 1.
C17_SideTableFailureFatal ==
    raised_at = "load_trace_attrs" =>
       /\ pc \in {"fatal", "exit"}
       /\ pc = "exit" => exit_status = 1
       /\ pages = 0
       /\ events = EmptyBag
       /\ stats.events_inserted = 0
       /\ save_log = <<>>
       /\ cursor_file = entry_at_start

C17_Witness ==
    /\ raised_at = "load_trace_attrs"
    /\ pc = "exit"
    /\ exit_status = 1
    /\ Live # {}

\* the rows of the page the for loop has passed
RowsDone ==
    IF pc = "transform" THEN SubSeq(rows, 1, row_idx - 1) ELSE rows

\* the positions in a page of the rows whose transform succeeds
Transformable(page) ==
    {i \in DOMAIN page : page[i].metadata.tag \in {"dict", "none"}}

\* C18: row-level transform failures are local.  While a page is processed
\* and until its batch is handed on, the errors counter is its value at the
\* fetch plus the number of rows passed whose transform raised, the batch is
\* the events of the rows passed whose transform succeeded, in page order,
\* and no exception has left the loop.
C18_TransformFailuresLocal ==
    pc \in {"transform", "insert", "checkpoint", "save", "check"} =>
       LET good == Transformable(RowsDone)
       IN  /\ stats.errors = iter.errors + Len(RowsDone) - Cardinality(good)
           /\ Len(batch) = Cardinality(good)
           /\ \A i \in good :
                 LET n == Cardinality({j \in good : j <= i})
                 IN  /\ batch[n].span_id = rows[i].id
                     /\ batch[n].project_id = rows[i].project_id
                     /\ batch[n].start_time = rows[i].start_time
           /\ raised_at = ""

C18_Witness ==
    /\ pc = "insert"
    /\ Len(rows) = 2
    /\ rows[1].metadata.tag = "str"
    /\ Len(batch) = 1
    /\ batch[1].span_id = rows[2].id
    /\ stats.errors = iter.errors + 1

\* C19: the cursor advances to the last transformed row.  After a page has
\* been processed (at the page test and at the next fetch), if some row of
\* the page transformed, the cursor is the key of the last such row, one
\* save_cursor call was made with it, and it is the file's entry if the
\* write succeeded; if no row transformed, the cursor is the one the page
\* was fetched with, no save_cursor call was made and the file is untouched.
C19_CursorAtLastTransformed ==
    (\/ pc = "check"
     \/ pc = "fetch" /\ pages >= 1)
    => LET good == Transformable(rows)
       IN  IF good # {}
           THEN LET last == rows[CHOOSE i \in good : \A j \in good : j <= i]
                    key == <<last.project_id, last.type, last.start_time \div 24, last.id>>
                IN  /\ current_cursor = key
                    /\ iter.saves = 1
                    /\ save_log[Len(save_log)].cursor = key
                    /\ iter.write = "written" =>
                          /\ Persisted(cursor_file)
                          /\ cursor_file.data[Partition].project_id = key[1]
                          /\ cursor_file.data[Partition].type = key[2]
                          /\ cursor_file.data[Partition].id = key[4]
           ELSE /\ current_cursor = iter.cursor
                /\ iter.saves = 0
                /\ cursor_file = iter.file

C19_Witness ==
    /\ pc = "check"
    /\ Len(rows) = 2
    /\ rows[1].metadata.tag = "dict"
    /\ rows[2].metadata.tag = "str"
    /\ current_cursor = <<rows[1].project_id, rows[1].type, rows[1].start_time \div 24, rows[1].id>>
    /\ iter.saves = 1

\* the phase a position of run() belongs to: 0 INIT, 1 LOAD_SIDE_TABLE,
\* 2 STREAM_TRANSFORM_WRITE, 3 DONE; 4 is a run that was aborted
PhaseOf(p, path) ==
    CASE p \in {"init", "connect"} -> 0
      [] p = "load_trace_attrs" -> 1
      [] p \in {"load_cursor", "count", "fetch", "transform", "insert",
                "checkpoint", "save", "check", "finish"} -> 2
      [] p = "exit" /\ path = "done" -> 3
      [] OTHER -> 4

\* C20: phase ordering.  A step of a run stays in its phase, goes to the
\* next one or aborts the run; while a run streams and when it is done the
\* side table holds an entry for every live trace of the partition; and a
\* run is done only after a page was fetched that was shorter than the
\* limit.
C20_PhaseOrdering ==
    /\ [](PhaseOf(pc, exit_path) \in {2, 3} =>
            /\ DOMAIN trace_attrs =
                  {<<t.project_id, t.id>> :
                      t \in {u \in traces : u.partition_id = Partition /\ u.is_deleted = 0}}
            /\ stats.trace_attrs_loaded = Cardinality(DOMAIN trace_attrs))
    /\ [](exit_path = "done" => pages >= 1 /\ Len(rows) < batch_size)
    /\ [][\/ PhaseOf(pc', exit_path') = PhaseOf(pc, exit_path)
          \/ PhaseOf(pc', exit_path') = PhaseOf(pc, exit_path) + 1
          \/ PhaseOf(pc', exit_path') = 4]_vars

C20_Witness ==
    /\ pc = "exit"
    /\ exit_path = "done"
    /\ pages >= 2
    /\ trace_attrs # <<>>

\* C21: exit status.  The process ends with status 0 exactly when the run
\* reached DONE, with or without dry-run: stream_observations left its loop
\* on a short page and nothing raised.  A run that was interrupted, or in
\* which the connection, the side-table load, the count, a fetch, an insert
\* or a save raised, ends with a non-zero status.
C21_ExitStatus ==
    /\ pc = "exit" => exit_status \in {0, 1}
    /\ pc = "exit" => (exit_status = 0 <=> exit_path = "done")
    /\ exit_path = "done" => (raised_at = "" /\ ShortPage(rows, batch_size))
    /\ (pc = "exit" /\ exit_path \in {"interrupt", "fatal"}) => exit_status # 0
    /\ (pc = "exit" /\ raised_at # "") => exit_status # 0

C21_Witness ==
    /\ pc = "exit"
    /\ exit_status = 0
    /\ dry_run
    /\ stats.observations_processed >= 1

\* C22: the final summary is printed on every exit path.  A process that has
\* left run(), after DONE, after an interrupt or after a fatal error, has
\* called print_summary.
C22_SummaryOnEveryExit == pc = "exit" => summaries >= 1

\* C23: the row count is used for the progress display only.  Whatever number
\* the count query returned, below or above the number of rows the scan
\* meets: the loop is left on a short page and on nothing else, the next
\* fetch follows a full page and nothing else, every page is the one the seek
\* cursor and the limit select, the batch handed to the insert holds one
\* event per transformable row of the page, and the cursor saved after it is
\* the loop's cursor.
C23_CountOnlyDisplayed ==
    /\ pc = "finish" => ShortPage(rows, batch_size)
    /\ (pc = "fetch" /\ pages >= 1) => ~ShortPage(rows, batch_size)
    /\ pages >= 1 => rows = QueryPage(observations, iter.cursor, batch_size)
    /\ pc = "insert" => Len(batch) = Cardinality(Transformable(rows))
    /\ (pc = "check" /\ batch # <<>>) =>
          /\ iter.saves = 1
          /\ save_log[Len(save_log)].cursor = current_cursor

\* a run that reached DONE after two pages or more although the count query
\* had answered 0
C23_Witness ==
    /\ exit_path = "done"
    /\ total_count = 0
    /\ pages >= 2
    /\ stats.observations_processed >= 2

\* the side-table and the page of the scenario of C24
RootAndChildScenario ==
    /\ DOMAIN trace_attrs = {<<"project1", "trace1">>}
    /\ trace_attrs[<<"project1", "trace1">>].bookmarked
    /\ "trace_tags" \notin Keys(trace_attrs[<<"project1", "trace1">>].metadata)
    /\ Len(rows) = 2
    /\ \A i \in 1..2 : rows[i].project_id = "project1" /\ rows[i].trace_id = "trace1"
    /\ \E i, j \in 1..2 :
          /\ rows[i].id = "t-trace1" /\ rows[i].parent_observation_id = Null
          /\ rows[j].id = "obs1" /\ rows[j].parent_observation_id = "t-trace1"

\* C24: the concrete scenario.  With one side-table entry, for (project1,
\* trace1), bookmarked and without tags, and the page of the trace's two
\* observations, t-trace1 without a parent and obs1 with parent t-trace1,
\* the loop builds exactly two events and counts no error: the t-trace1 event
\* has parent_span_id "" and bookmarked true, the obs1 event has
\* parent_span_id "t-trace1" and bookmarked false.
C24_ConcreteScenario ==
    (RootAndChildScenario /\ pc # "transform") =>
       /\ pc = "insert"
       /\ Len(batch) = 2
       /\ stats.errors = 0
       /\ stats.observations_processed = 2
       /\ \E i, j \in 1..2 :
             /\ i # j
             /\ batch[i].span_id = "t-trace1"
             /\ batch[i].parent_span_id = ""
             /\ batch[i].bookmarked = TRUE
             /\ batch[j].span_id = "obs1"
             /\ batch[j].parent_span_id = "t-trace1"
             /\ batch[j].bookmarked = FALSE

C24_Witness ==
    /\ RootAndChildScenario
    /\ pc = "insert"
    /\ Len(batch) = 2

\* C25: provenance.  The source of an event is "otel" exactly when the
\* observation's own metadata is a map with the key resourceAttributes, and
\* "ingestion-api" otherwise: also when only the side-table's metadata has
\* that key, and when the observation has no metadata.
C25_Provenance ==
    \A i \in DOMAIN batch : \A n \in DOMAIN rows :
       rows[n].id = batch[i].span_id =>
          /\ batch[i].source \in {"otel", "ingestion-api"}
          /\ batch[i].source = "otel" <=>
                (/\ rows[n].metadata.tag = "dict"
                 /\ \E k \in DOMAIN rows[n].metadata.items :
                       rows[n].metadata.items[k][1] = "resourceAttributes")

\* an event from an observation with metadata but without the key, of a
\* trace whose side-table metadata has the key
C25_Witness ==
    /\ Len(batch) = 1
    /\ batch[1].source = "ingestion-api"
    /\ rows[1].metadata.tag = "dict"
    /\ rows[1].metadata.items # <<>>
    /\ <<rows[1].project_id, rows[1].trace_id>> \in DOMAIN trace_attrs
    /\ "resourceAttributes" \in
          Keys(trace_attrs[<<rows[1].project_id, rows[1].trace_id>>].metadata)
    /\ "resourceAttributes" \in Range(batch[1].metadata_names)

\* C29: absent side-table entries degrade to defaults.  For an observation
\* whose (project, trace) has no side-table entry and whose own metadata is
\* a map or None, the transform does not raise and the event has release,
\* user_id and session_id "", public and bookmarked false, and the metadata
\* names and values of the observation's own metadata, in its order.
C29_AbsentEntryDefaults ==
    (/\ pc # "transform"
     /\ Len(rows) = 1
     /\ <<rows[1].project_id, rows[1].trace_id>> \notin DOMAIN trace_attrs
     /\ rows[1].metadata.tag \in {"dict", "none"})
    => /\ stats.errors = 0
       /\ Len(batch) = 1
       /\ batch[1].span_id = rows[1].id
       /\ batch[1].release = ""
       /\ batch[1].user_id = ""
       /\ batch[1].session_id = ""
       /\ batch[1].public = FALSE
       /\ batch[1].bookmarked = FALSE
       /\ LET own == IF rows[1].metadata.tag = "dict"
                     THEN rows[1].metadata.items ELSE <<>>
          IN  /\ batch[1].metadata_names = [k \in DOMAIN own |-> own[k][1]]
              /\ batch[1].metadata_raw_values = [k \in DOMAIN own |-> own[k][2]]

\* an event of trace2, which has no entry in a side-table that has one for
\* trace1, from an observation with two metadata keys
C29_Witness ==
    /\ pc = "insert"
    /\ Len(rows) = 1
    /\ trace_attrs # <<>>
    /\ <<rows[1].project_id, rows[1].trace_id>> \notin DOMAIN trace_attrs
    /\ Len(batch) = 1
    /\ Len(batch[1].metadata_names) = 2
    /\ batch[1].public = FALSE

\* C26: batch bounds and the empty-batch no-op.  A page has at most
\* batch_size rows and the batch at most one event per row, so every batch
\* handed to insert_events_batch has between one and batch_size events; an
\* insert attempt is made only for a non-empty batch; and for a page whose
\* batch stayed empty no insert call and no save_cursor call was made,
\* events_inserted is what it was at the fetch and the cursor file is
\* untouched.
C26_BatchBounds ==
    /\ Len(rows) <= batch_size
    /\ Len(batch) <= Len(rows)
    /\ pc = "insert" => (Len(batch) >= 1 /\ Len(batch) <= batch_size)
    /\ (iter.ok + iter.failed >= 1) => batch # <<>>
    /\ (pc \in {"check", "fetch", "finish"} /\ rows # <<>> /\ batch = <<>>) =>
          /\ iter.ok = 0
          /\ iter.failed = 0
          /\ attempt = 0
          /\ iter.saves = 0
          /\ stats.events_inserted = iter.inserted
          /\ cursor_file = iter.file

\* a full page of two rows neither of which transformed, in a run that
\* started from a cursor file with an entry for the partition
C26_Witness ==
    /\ pc = "check"
    /\ Len(rows) = 2
    /\ batch = <<>>
    /\ Persisted(cursor_file)

\* C27: bounded retry with doubling backoff.  One call makes at most
\* max_retries attempts, at most one of which succeeds, and none in dry-run;
\* the i-th wait of the call is 2^(i-1) seconds, that is 2^i seconds after
\* the failed attempt number i counted from 0; there is one wait per failed
\* attempt except the last of an exhausted budget, and none after a success.
C27_BoundedRetryBackoff ==
    /\ iter.ok + iter.failed <= max_retries
    /\ iter.ok <= 1
    /\ dry_run => iter.ok + iter.failed = 0
    /\ iter.raised => iter.failed = max_retries
    /\ Len(iter.waits) = IF iter.raised THEN iter.failed - 1 ELSE iter.failed
    /\ \A i \in DOMAIN iter.waits : iter.waits[i] = 2 ^ (i - 1)
    /\ (iter.ok = 1 /\ pc = "checkpoint") => Len(iter.waits) = attempt

\* a call that waited 1, 2 and 4 seconds and then succeeded
C27_Witness ==
    /\ pc = "checkpoint"
    /\ iter.ok = 1
    /\ iter.failed = 3
    /\ iter.waits = <<1, 2, 4>>

\* C28: side-table loading.  After Phase 1 the side-table has one entry per
\* live trace row of the partition.  A null user_id, session_id or release
\* is "", a null public or bookmarked is false, a null metadata is the empty
\* map.  The entry's metadata has the key trace_tags exactly when the tag
\* list is not empty or the row's own metadata had the key; for a non-empty
\* tag list its value is the JSON text of the list, in place of any value
\* the row had; every other key keeps its value, and without tags the
\* metadata is the row's own.
C28_SideTableLoading ==
    pc = "load_cursor" =>
       LET live == {r \in traces : r.partition_id = Partition /\ r.is_deleted = 0}
       IN  /\ DOMAIN trace_attrs = {<<r.project_id, r.id>> : r \in live}
           /\ stats.trace_attrs_loaded = Cardinality(live)
           /\ \A r \in live :
                 LET e == trace_attrs[<<r.project_id, r.id>>]
                     own == IF r.metadata.tag = "dict" THEN r.metadata.items ELSE <<>>
                     hits == {i \in DOMAIN e.metadata : e.metadata[i][1] = "trace_tags"}
                 IN  /\ e.user_id = (IF r.user_id = Null THEN "" ELSE r.user_id)
                     /\ e.session_id = (IF r.session_id = Null THEN "" ELSE r.session_id)
                     /\ e.release = (IF r.release = Null THEN "" ELSE r.release)
                     /\ e.public = (r.public = <<TRUE>>)
                     /\ e.bookmarked = (r.bookmarked = <<TRUE>>)
                     /\ (r.metadata.tag = "none" /\ r.tags = <<>>) => e.metadata = <<>>
                     /\ (hits # {}) <=>
                           (r.tags # <<>> \/ \E i \in DOMAIN own : own[i][1] = "trace_tags")
                     /\ Cardinality(hits) <= 1
                     /\ r.tags = <<>> => e.metadata = own
                     /\ r.tags = <<"a">> =>
                           \A i \in hits : e.metadata[i][2] = "[\"a\"]"
                     /\ r.tags = <<"a", "b">> =>
                           \A i \in hits : e.metadata[i][2] = "[\"a\", \"b\"]"
                     /\ \A i \in DOMAIN own :
                           own[i][1] # "trace_tags" =>
                              \E j \in DOMAIN e.metadata : e.metadata[j] = own[i]

\* a row with null user_id, public and bookmarked, two tags and a metadata
\* map that already had trace_tags
C28_Witness ==
    /\ pc = "load_cursor"
    /\ \E r \in traces :
          /\ r.partition_id = Partition /\ r.is_deleted = 0
          /\ r.user_id = Null
          /\ r.public = NoneBool
          /\ r.bookmarked = NoneBool
          /\ r.tags = <<"a", "b">>
          /\ "trace_tags" \in Keys(r.metadata.items)
          /\ Lookup(trace_attrs[<<r.project_id, r.id>>].metadata, "trace_tags")
                = "[\"a\", \"b\"]"

\* the positions inside stream_observations
StreamPositions ==
    {"load_cursor", "count", "fetch", "transform", "insert", "checkpoint",
     "save", "check", "finish"}

\* C30: the side-table is read-only after Phase 1.  All through
\* stream_observations the side-table, the metadata map of every entry
\* included, is the one load_trace_attrs built from the traces table, and no
\* step other than load_trace_attrs itself changes it, so it is the same at
\* exit as at the end of Phase 1.
C30_SideTableReadOnly ==
    /\ [](pc \in StreamPositions => trace_attrs = load_trace_attrs(traces))
    /\ [][pc # "load_trace_attrs" => trace_attrs' = trace_attrs]_vars

C30_Witness ==
    /\ pc = "exit"
    /\ exit_path = "done"
    /\ stats.events_inserted >= 2
    /\ DOMAIN trace_attrs # {}
    /\ trace_attrs = load_trace_attrs(traces)

\* the loop's cursor is strictly beyond the cursor its last page was
\* fetched with
CursorAdvanced ==
    /\ TupleGE(current_cursor, iter.cursor)
    /\ current_cursor # iter.cursor

\* C31: liveness of the scan.  With no transform failure and every batch
\* inserted, for every batch size from 1 on, the loop never issues a fetch
\* with the cursor of the fetch before it: when it is about to fetch again
\* after a full page, the cursor has moved strictly forward, so that the
\* finite table is exhausted and the run reaches DONE.
C31_ScanLiveness ==
    (/\ pc = "fetch"
     /\ pages >= 1
     /\ stats.errors = 0
     /\ iter.ok >= 1)
    => CursorAdvanced

\* C32: progress under row-level failures.  For batch size 2 or more,
\* whichever rows fail to transform, every loop iteration that fetched a
\* full page has moved the cursor of the next fetch strictly forward.
C32_ProgressUnderRowFailures ==
    (/\ pc = "fetch"
     /\ pages >= 1
     /\ batch_size >= 2)
    => CursorAdvanced

\* C33: at-least-once coverage.  When a real run with batch size 2 or more
\* has reached DONE, every live row of the partition at or after the start
\* cursor whose transform succeeds has its event in the events table.
C33_AtLeastOnceCoverage ==
    (/\ pc = "exit"
     /\ exit_path = "done"
     /\ ~dry_run
     /\ batch_size >= 2)
    => \A r \in Live :
          (/\ TupleGE(SortKey(r), start_cursor)
           /\ ~TransformRaises(r, trace_attrs))
          => CopiesIn(transform_observation_to_event(r, trace_attrs), events) >= 1

\* C34: bounded duplication within one run.  In a real run that is not
\* interrupted and in which no insert call fails (max_retries = 1 and
\* nothing raised), no row's event is in the events table more than twice.
C34_BoundedDuplication ==
    (/\ ~dry_run
     /\ max_retries = 1
     /\ raised_at = ""
     /\ exit_path # "interrupt")
    => \A r \in Live :
          ~TransformRaises(r, trace_attrs) =>
             CopiesIn(transform_observation_to_event(r, trace_attrs), events) <= 2

\* C35: no data loss across runs that share a cursor file.  Whenever the
\* cursor file has an entry for the partition, every transformable live row
\* whose key is strictly below that entry has its event in the events table,
\* whatever runs, dry or real, completed or not, came before (stated for
\* a retry budget of at least one attempt).
C35_NoDataLossAcrossRuns ==
    (max_retries >= 1 /\ Persisted(cursor_file)) =>
       \A r \in Live :
          (/\ ~TransformRaises(r, load_trace_attrs(traces))
           /\ TupleGE(load_cursor(cursor_file), SortKey(r))
           /\ load_cursor(cursor_file) # SortKey(r))
          => CopiesIn(transform_observation_to_event(r, load_trace_attrs(traces)),
                      events) >= 1

\* C36: the writer's postcondition for every max_retries value.  In a real
\* run, when insert_events_batch has returned normally for its non-empty
\* batch, an insert call succeeded for that batch and its events are in the
\* events table; otherwise it has raised.  This for every max_retries from
\* 0 on.
C36_WriterPostcondition ==
    /\ (~dry_run /\ pc = "checkpoint") =>
          /\ iter.ok = 1
          /\ \A e \in Range(batch) : CopiesIn(e, events) >= 1
    /\ (~dry_run /\ pc = "fatal") => iter.raised

\* C37: the counter invariant.  events_inserted never exceeds
\* observations_processed; it is the number of events the insert calls that
\* returned have put into the events table, so it stays 0 in dry-run and
\* grows by the batch length once per inserted batch; and in a real run the
\* two counters are equal right after the loop has saved a cursor.
C37_CounterInvariant ==
    /\ stats.events_inserted <= stats.observations_processed
    /\ stats.events_inserted = BagCardinality(events)
    /\ stats.events_inserted = iter.inserted + iter.ok * Len(batch)
    /\ dry_run => stats.events_inserted = 0
    /\ (~dry_run /\ pc = "check" /\ iter.saves = 1) =>
          stats.events_inserted = stats.observations_processed

\* the run ended by a KeyboardInterrupt that arrived inside the write of
\* save_cursor, and its handler has run
InterruptedInWrite ==
    /\ pc = "exit"
    /\ exit_path = "interrupt"
    /\ iter.saves = 1
    /\ iter.write = ""

\* C38: interrupt during a cursor write.  After the handler of an interrupt
\* that arrived between the open of the cursor file for writing and the end
\* of the dump, the file is a JSON object that holds the last known-good
\* cursor for the partition and, unchanged, every entry it held for another
\* partition when the run started.
C38_InterruptDuringWrite ==
    InterruptedInWrite =>
       /\ Persisted(cursor_file)
       /\ load_cursor(cursor_file) = self_current_cursor
       /\ entry_at_start.kind = "ok" =>
             \A q \in DOMAIN entry_at_start.data \ {Partition} :
                /\ q \in DOMAIN cursor_file.data
                /\ cursor_file.data[q] = entry_at_start.data[q]

---------------------------------------------------------------------------
(* The cursor store alone: one call of save_cursor for the configured
   partition, then one call of load_cursor, by a process configured for the
   same partition or by one configured for another *)

\* cursors to save: the minimum cursor, every mix of empty and non-empty
\* project_id, type and id, one- and two-digit days
CursorValues ==
    {<<p, t, d, i>> : p \in {"", "project1"}, t \in {"", "SPAN"},
                      d \in {0, 8, 9, 30}, i \in {"", "obs1"}}

InitCursor ==
    /\ batch_size = 1
    /\ max_retries = 1
    /\ dry_run = FALSE
    /\ observations = {}
    /\ traces = {}
    /\ events = EmptyBag
    /\ cursor_file \in InitialCursorFiles
    /\ run = 1
    /\ pc = "save_cursor"
    /\ trace_attrs = <<>>
    /\ self_current_cursor = <<>>
    /\ stats = ZeroStats
    /\ current_cursor \in CursorValues
    /\ rows = <<>>
    /\ row_idx = 1
    /\ batch = <<>>
    /\ attempt = 0
    /\ exit_status = -1
    /\ pages = 0
    /\ start_cursor = get_minimum_cursor
    /\ entry_at_start = cursor_file
    /\ save_log = <<>>
    /\ last_confirmed = <<>>
    /\ write_failures = 0
    /\ exit_path = ""
    /\ prev_exit_path = ""
    /\ raised_at = ""
    /\ iter = NewIter(cursor_file, current_cursor, ZeroStats)
    /\ total_count = -1
    /\ summaries = 0

\* save_cursor(current_cursor) returns, its write having gone any way
SaveCursorCall ==
    /\ pc = "save_cursor"
    /\ ~SaveCursorRaises(cursor_file)
    /\ \E outcome \in WriteOutcomes :
          /\ cursor_file' = save_cursor(cursor_file, current_cursor, outcome)
          /\ iter' = [iter EXCEPT !.saves = 1, !.write = outcome]
    /\ pc' = "load_cursor"
    /\ UNCHANGED <<report_vars, cfg_vars, observations, traces, events, run,
                   trace_attrs, self_current_cursor, stats, current_cursor,
                   page_vars, exit_status, pages, start_cursor,
                   entry_at_start, save_log, last_confirmed, write_failures,
                   exit_path, prev_exit_path, raised_at>>

\* load_cursor() of a process configured for partition
LoadCursorCall(partition, done) ==
    /\ pc = "load_cursor"
    /\ start_cursor' = load_cursor_for(cursor_file, partition)
    /\ pc' = done
    /\ UNCHANGED <<report_vars, cfg_vars, db_vars, events, cursor_file, run,
                   trace_attrs, self_current_cursor, stats, current_cursor,
                   rows, row_idx, batch, attempt, exit_status, pages,
                   entry_at_start, save_log,
                   last_confirmed, write_failures, exit_path, prev_exit_path,
                   raised_at, iter>>

LoadCursorSame == LoadCursorCall(Partition, "loaded")

LoadCursorOther == LoadCursorCall(OtherPartition, "loaded_other")

NextCursor == SaveCursorCall \/ LoadCursorSame \/ LoadCursorOther

SpecCursor == InitCursor /\ [][NextCursor]_vars

\* C39: cursor store round trip.  After a save_cursor(c) whose write
\* succeeded, load_cursor for the same partition returns exactly c, the
\* minimum cursor and cursors with an empty project_id, type or id included;
\* load_cursor for another partition returns what it returned before the
\* save, which is the cursor of that partition's entry where the file held
\* one.
C39_CursorRoundTrip ==
    /\ (pc = "loaded" /\ iter.write = "written") => start_cursor = current_cursor
    /\ (pc = "loaded_other" /\ iter.write = "written") =>
          /\ start_cursor = load_cursor_for(entry_at_start, OtherPartition)
          /\ (entry_at_start.kind = "ok"
               /\ OtherPartition \in DOMAIN entry_at_start.data) =>
                 start_cursor = <<"project1", "SPAN", 1, "obs1">>

\* a cursor with an empty project_id, type and id and a two-digit day was
\* saved over an entry whose date does not parse, and loaded back
C39_Witness ==
    /\ pc = "loaded"
    /\ iter.write = "written"
    /\ current_cursor = <<"", "", 30, "">>
    /\ start_cursor = <<"", "", 30, "">>
    /\ entry_at_start.kind = "ok"
    /\ Partition \in DOMAIN entry_at_start.data
    /\ StrptimeRaises(entry_at_start.data[Partition].date)

\* the keys of the rows of the remaining range that transform
TransformedKeys ==
    {SortKey(r) : r \in {x \in Live : /\ TupleGE(SortKey(x), start_cursor)
                                      /\ ~TransformRaises(x, trace_attrs)}}

GreatestTransformedKey ==
    CHOOSE k \in TransformedKeys : \A j \in TransformedKeys : TupleGE(k, j)

\* a real run returned from stream_observations having transformed a row
DoneWithRows ==
    /\ pc = "exit"
    /\ exit_path = "done"
    /\ ~dry_run
    /\ stats.observations_processed >= 1

\* a real iteration has inserted its batch and save_cursor has returned
WroteBatch == pc = "check" /\ ~dry_run /\ iter.saves = 1

====
